---------------------------- MODULE Spec2Model ----------------------------
(***************************************************************************)
(* Model of the Circular Economy EU good-practice scraper (scrape_ce.py):  *)
(* the extractor (parse_practice_card, parse_practices), the fetcher       *)
(* (get_good_practices), the paginator (scrape_all_pages), the writer      *)
(* (write_dataset) and main; and of the plot generator (analyze.py:        *)
(* generate_plots).                                                        *)
(*                                                                         *)
(* Strings the code inspects character by character (texts, href values,   *)
(* record fields) are sequences of one-character strings.  Tag names and   *)
(* class tokens are only compared for equality and stay atomic strings.    *)
(* An optional value (a lookup that may give None, an attribute that may   *)
(* be missing) is a sequence of length 0 or 1.                             *)
(***************************************************************************)
EXTENDS Integers, Sequences, FiniteSets, TLC

VARIABLES
    \* ---- extractor harness (a direct call of parse_practices) ----
    gen,        \* description of the markup handed to parse_practices
    parsed,     \* <<>> before the call, <<result>> after it
    \* ---- scraper run (main -> scrape_all_pages -> get_good_practices) ----
    cfg,        \* the parsed command line: max_pages, skip, retries, delay
    pc,         \* position of the run
    page,       \* scrape_all_pages: page
    all_data,   \* scrape_all_pages: all_data
    page_data,  \* scrape_all_pages: page_data of the last call
    attempt,    \* get_good_practices: attempt
    log,        \* observable events: calls, GET attempts, sleeps
    stop,       \* how scrape_all_pages left its loop
    fs,         \* the file system around the output path
    fs0,        \* the file system as the run found it
    exit_code,  \* <<>> while running, <<n>> once main has returned n
    \* ---- writer harness (a direct call of write_dataset) ----
    w_records,  \* the records argument
    w_fs,       \* the file system around the output path
    w_out,      \* <<>> before the call, <<outcome>> after it
    \* ---- plot generator (a call of generate_plots) ----
    p_df,       \* df.columns: the columns of the loaded dataset
    p_columns,  \* the columns argument
    p_dir,      \* output_dir: <<>> when missing, else <<its files>>
    p_pc,       \* position of the call
    p_i,        \* place in columns of the for loop
    p_written,  \* the files save_bar_plot wrote, in order
    p_warned    \* the columns a warning was logged for, in order

vars == <<gen, parsed, cfg, pc, page, all_data, page_data, attempt,
          log, stop, fs, fs0, exit_code, w_records, w_fs, w_out,
          p_df, p_columns, p_dir, p_pc, p_i, p_written, p_warned>>

parseVars == <<gen, parsed>>
runVars == <<cfg, pc, page, all_data, page_data, attempt, log, stop, fs,
             fs0, exit_code>>
writeVars == <<w_records, w_fs, w_out>>
plotVars == <<p_df, p_columns, p_dir, p_pc, p_i, p_written, p_warned>>

----------------------------------------------------------------------------
(* Character strings *)

SENTINEL == <<"N", "/", "A">>

BASE_DOMAIN ==
    <<"h","t","t","p","s",":","/","/","c","i","r","c","u","l","a","r",
      "e","c","o","n","o","m","y",".","e","u","r","o","p","a",".","e","u">>

\* The characters str.strip() removes (those that occur in the model).
Whitespace == {" ", "\n"}

RECURSIVE lstrip(_)
lstrip(s) ==
    IF s # <<>> /\ Head(s) \in Whitespace THEN lstrip(Tail(s)) ELSE s

RECURSIVE rstrip(_)
rstrip(s) ==
    IF s # <<>> /\ s[Len(s)] \in Whitespace
    THEN rstrip(SubSeq(s, 1, Len(s) - 1))
    ELSE s

strip(s) == rstrip(lstrip(s))

startswith(s, prefix) ==
    /\ Len(s) >= Len(prefix)
    /\ SubSeq(s, 1, Len(prefix)) = prefix

\* Mutant: the separator also put after the last part.
RECURSIVE join_trailing_sep(_, _)
join_trailing_sep(sep, parts) ==
    IF parts = <<>> THEN <<>>
    ELSE parts[1] \o sep \o join_trailing_sep(sep, Tail(parts))

\* sep.join(parts)
RECURSIVE join(_, _)
join(sep, parts) ==
    IF parts = <<>> THEN <<>>
    ELSE IF Len(parts) = 1 THEN parts[1]
    ELSE parts[1] \o sep \o join(sep, Tail(parts))

COMMA_SPACE == <<",", " ">>

----------------------------------------------------------------------------
(* The document tree *)

TextNode(s) ==
    [kind |-> "text", name |-> "", cls |-> <<>>, href |-> <<>>,
     children |-> <<>>, text |-> s]

TagNode(name, cls, href, children) ==
    [kind |-> "tag", name |-> name, cls |-> cls, href |-> href,
     children |-> children, text |-> <<>>]

\* All nodes below n in document order (n itself excluded).
RECURSIVE descendants(_)
RECURSIVE descendants_of_all(_)
descendants(n) == descendants_of_all(n.children)
descendants_of_all(ns) ==
    IF ns = <<>> THEN <<>>
    ELSE <<Head(ns)>> \o descendants(Head(ns)) \o descendants_of_all(Tail(ns))

Range(s) == {s[i] : i \in DOMAIN s}

\* bs4's class_ filter: the wanted string matches one class token of the
\* element, or the element's whole class attribute.  NoClass = no filter.
NoClass == <<>>
class_matches(n, wanted) ==
    \/ wanted = NoClass
    \/ Len(wanted) = 1 /\ wanted[1] \in Range(n.cls)
    \/ Len(wanted) > 1 /\ n.cls = wanted

tag_matches(n, name, wanted) ==
    n.kind = "tag" /\ n.name = name /\ class_matches(n, wanted)

find_all(n, name, wanted) ==
    SelectSeq(descendants(n), LAMBDA d : tag_matches(d, name, wanted))

\* First match in document order, or None (the empty sequence).
find(n, name, wanted) ==
    LET all == find_all(n, name, wanted)
    IN IF all = <<>> THEN <<>> ELSE <<all[1]>>

\* get_text(strip=True): every string below the tag is stripped, the empty
\* ones are dropped, the rest are concatenated without a separator.
get_text(n) ==
    LET strings == SelectSeq(descendants(n), LAMBDA d : d.kind = "text")
        RECURSIVE cat(_)
        cat(i) == IF i > Len(strings) THEN <<>>
                  ELSE strip(strings[i].text) \o cat(i + 1)
    IN cat(1)

----------------------------------------------------------------------------
(* The extractor *)

Fields == {"title", "description", "link", "organisation",
           "type_of_organisation", "country", "language", "key_area",
           "sector", "scope"}

CARD_CLASS == <<"node--type-cecon-good-practice">>
FIELD_ITEM == <<"field-item">>

\* The class_ strings of parse_practice_card, split at their spaces.
ABSTRACT_CLASS ==
    <<"field-wrapper", "field",
      "field-node--field-cecon-abstract",
      "field-name-field-cecon-abstract",
      "field-type-text-long", "field-label-hidden">>
ORGANISATION_CLASS ==
    <<"field-wrapper", "field",
      "field-node--field-cecon-organisation-company",
      "field-name-field-cecon-organisation-company",
      "field-type-link", "field-label-above">>
CONTRIBUTOR_CLASS ==
    <<"field-wrapper", "field",
      "field-node--field-cecon-contributor-category",
      "field-name-field-cecon-contributor-category",
      "field-type-entity-reference", "field-label-above">>
COUNTRY_CLASS ==
    <<"field-wrapper", "field",
      "field-node--field-cecon-country",
      "field-name-field-cecon-country",
      "field-type-country", "field-label-above">>
LANGUAGE_CLASS ==
    <<"field-wrapper", "field",
      "field-node--field-cecon-main-language",
      "field-name-field-cecon-main-language",
      "field-type-entity-reference", "field-label-above">>
KEY_AREA_CLASS ==
    <<"field-wrapper", "field",
      "field-node--field-cecon-key-area",
      "field-name-field-cecon-key-area",
      "field-type-entity-reference", "field-label-above">>
SECTOR_CLASS ==
    <<"field-wrapper", "field",
      "field-node--field-cecon-sector",
      "field-name-field-cecon-sector",
      "field-type-entity-reference", "field-label-above">>
SCOPE_CLASS ==
    <<"field-wrapper", "field",
      "field-node--field-cecon-scope",
      "field-name-field-cecon-scope",
      "field-type-entity-reference", "field-label-above">>

\* title = title_tag.get_text(strip=True) if title_tag else "N/A"
card_title(practice) ==
    LET title_tag == find(practice, "h2", NoClass)
    IN IF title_tag # <<>> THEN get_text(title_tag[1]) ELSE SENTINEL

\* title_tag.find("a")["href"] raises KeyError when the a has no href.
link_raises(practice) ==
    LET title_tag == find(practice, "h2", NoClass)
    IN /\ title_tag # <<>>
       /\ find(title_tag[1], "a", NoClass) # <<>>
       /\ find(title_tag[1], "a", NoClass)[1].href = <<>>

\* link = title_tag.find("a")["href"] if title_tag and title_tag.find("a") else ""
raw_link(practice) ==
    LET title_tag == find(practice, "h2", NoClass)
    IN IF title_tag # <<>> /\ find(title_tag[1], "a", NoClass) # <<>>
       THEN find(title_tag[1], "a", NoClass)[1].href[1]
       ELSE <<>>

\* Mutant: every link found is prefixed, relative or not.
full_link_always_prefixed(link) ==
    IF link # <<>> THEN BASE_DOMAIN \o link ELSE SENTINEL

\* f"{BASE_DOMAIN}{link}" if link.startswith("/") else link or "N/A"
full_link(link) ==
    IF startswith(link, <<"/">>) THEN BASE_DOMAIN \o link
    ELSE IF link # <<>> THEN link ELSE SENTINEL

\* tag.get_text(strip=True) if tag else "N/A"
text_field(practice, wanted) ==
    LET tag == find(practice, "div", wanted)
    IN IF tag # <<>> THEN get_text(tag[1]) ELSE SENTINEL

\* tag.find("a").get_text(strip=True) if tag and tag.find("a") else "N/A"
anchor_field(practice, wanted) ==
    LET tag == find(practice, "div", wanted)
    IN IF tag # <<>> /\ find(tag[1], "a", NoClass) # <<>>
       THEN get_text(find(tag[1], "a", NoClass)[1])
       ELSE SENTINEL

\* country_tag.find("div", class_="field-item") is None when the container
\* has no such div, and None.get_text raises AttributeError.
country_raises(practice) ==
    LET country_tag == find(practice, "div", COUNTRY_CLASS)
    IN /\ country_tag # <<>>
       /\ find(country_tag[1], "div", FIELD_ITEM) = <<>>

\* country_tag.find("div", class_="field-item").get_text(strip=True)
\*     if country_tag else "N/A"
card_country(practice) ==
    LET country_tag == find(practice, "div", COUNTRY_CLASS)
    IN IF country_tag # <<>>
       THEN get_text(find(country_tag[1], "div", FIELD_ITEM)[1])
       ELSE SENTINEL

anchor_texts(tag) ==
    LET as == find_all(tag, "a", NoClass)
    IN [i \in 1..Len(as) |-> get_text(as[i])]

\* ", ".join(a.get_text(strip=True) for a in tag.find_all("a"))
\*     if tag else "N/A"
multi_field(practice, wanted) ==
    LET tag == find(practice, "div", wanted)
    IN IF tag # <<>> THEN join(COMMA_SPACE, anchor_texts(tag[1]))
       ELSE SENTINEL

GoodPractice(practice) ==
    [title |-> card_title(practice),
     description |-> text_field(practice, ABSTRACT_CLASS),
     link |-> full_link(raw_link(practice)),
     organisation |-> anchor_field(practice, ORGANISATION_CLASS),
     type_of_organisation |-> anchor_field(practice, CONTRIBUTOR_CLASS),
     country |-> card_country(practice),
     language |-> anchor_field(practice, LANGUAGE_CLASS),
     key_area |-> multi_field(practice, KEY_AREA_CLASS),
     sector |-> multi_field(practice, SECTOR_CLASS),
     scope |-> multi_field(practice, SCOPE_CLASS)]

\* The result of a call: exc = "" and the value returned, or the exception
\* that left the call and no value.  The statements run in source order, so
\* the href lookup (line 66) fails before the country lookup (line 104).
parse_practice_card(practice) ==
    IF link_raises(practice) THEN [exc |-> "KeyError", value |-> <<>>]
    ELSE IF country_raises(practice)
    THEN [exc |-> "AttributeError", value |-> <<>>]
    ELSE [exc |-> "", value |-> <<GoodPractice(practice)>>]

\* [parse_practice_card(practice) for practice in practices]: the first
\* exception leaves the comprehension and no list is built.
RECURSIVE parse_cards(_)
parse_cards(practices) ==
    IF practices = <<>> THEN [exc |-> "", value |-> <<>>]
    ELSE LET first == parse_practice_card(Head(practices))
         IN IF first.exc # "" THEN first
            ELSE LET rest == parse_cards(Tail(practices))
                 IN IF rest.exc # "" THEN rest
                    ELSE [exc |-> "", value |-> first.value \o rest.value]

parse_practices(soup) ==
    parse_cards(find_all(soup, "div", CARD_CLASS))

----------------------------------------------------------------------------
(* Markup handed to the extractor.                                         *)
(* A card is described by what each of its nine markup parts holds; the    *)
(* description is rendered to a document tree, which is all the extractor  *)
(* sees.  A text is lead \o core \o trail with lead and trail whitespace   *)
(* and core free of whitespace at both ends, so core is its trimmed form.  *)

MaxGaps == 2    \* parts of a card that differ from the complete card
MaxCards == 2   \* cards on a page handed to parse_practices
MaxItems == 2   \* sub-elements of a multi-valued field of the complete card

Parts == {"h2", "description", "organisation", "type_of_organisation",
          "country", "language", "key_area", "sector", "scope"}

MultiParts == {"key_area", "sector", "scope"}

Txt(lead, core, trail) == [lead |-> lead, core |-> core, trail |-> trail]

Raw(t) == t.lead \o t.core \o t.trail

Blank == Txt(<<" ">>, <<>>, <<"\n">>)

Digits == <<"1", "2", "3", "4", "5", "6", "7", "8", "9">>

\* The i-th sub-item of a multi-valued part: distinct texts, padded on
\* alternating sides, one with an inner space.
Item(letter, i) ==
    Txt(IF i % 2 = 1 THEN <<"\n", " ">> ELSE <<>>,
        IF i = 2 THEN <<letter, " ", Digits[i]>> ELSE <<letter, Digits[i]>>,
        IF i % 2 = 0 THEN <<" ">> ELSE <<>>)

Items(letter, n) == [i \in 1..n |-> Item(letter, i)]

\* A part: present or not; with its inner element (the a of the h2, of an
\* organisation, type or language container and of each sub-item, the
\* field-item div of the country container) or not; the href of the h2's a;
\* its texts.
Part(present, inner, href, texts) ==
    [present |-> present, inner |-> inner, href |-> href, texts |-> texts]

Absent == Part(FALSE, FALSE, <<>>, <<>>)

REL_LINK == <<"/", "p", "/", "e">>
ABS_LINK == <<"h", "t", "t", "p", ":", "/", "/", "x">>
PADDED_LINK == <<" ", "/", "p">>
NET_LINK == <<"/", "/", "x">>

TITLE == Txt(<<"\n", " ">>, <<"T", " ", "i">>, <<" ">>)

Letter(part) ==
    CASE part = "description" -> "D"
      [] part = "organisation" -> "O"
      [] part = "type_of_organisation" -> "Y"
      [] part = "country" -> "C"
      [] part = "language" -> "L"
      [] part = "key_area" -> "K"
      [] part = "sector" -> "S"
      [] part = "scope" -> "P"
      [] OTHER -> "T"

ScalarText(part) == Txt(<<" ">>, <<Letter(part), "x">>, <<"\n">>)

\* The complete card (the shape of the test fixture FULL_HTML).
FullPart(part) ==
    IF part = "h2" THEN Part(TRUE, TRUE, <<REL_LINK>>, <<TITLE>>)
    ELSE IF part \in MultiParts
    THEN Part(TRUE, TRUE, <<>>, Items(Letter(part), MaxItems))
    ELSE Part(TRUE, part # "description", <<>>, <<ScalarText(part)>>)

\* The other shapes a part takes, in a fixed order.
Variants(part) ==
    IF part = "h2"
    THEN << Absent,
            Part(TRUE, FALSE, <<>>, <<TITLE>>),
            Part(TRUE, FALSE, <<>>, <<Blank>>),
            Part(TRUE, TRUE, <<ABS_LINK>>, <<TITLE>>),
            Part(TRUE, TRUE, <<<<>>>>, <<TITLE>>),
            Part(TRUE, TRUE, <<>>, <<TITLE>>),
            Part(TRUE, TRUE, <<PADDED_LINK>>, <<Blank>>),
            Part(TRUE, TRUE, <<NET_LINK>>, <<TITLE>>) >>
    ELSE IF part \in MultiParts
    THEN << Absent,
            Part(TRUE, TRUE, <<>>, <<>>),
            Part(TRUE, TRUE, <<>>, Items(Letter(part), 1)),
            Part(TRUE, TRUE, <<>>, Items(Letter(part), MaxItems + 1)),
            Part(TRUE, TRUE, <<>>, <<Item(Letter(part), 1), Blank>>),
            Part(TRUE, FALSE, <<>>, Items(Letter(part), 1)) >>
    ELSE IF part = "description"
    THEN << Absent,
            Part(TRUE, FALSE, <<>>, <<Blank>>) >>
    ELSE << Absent,
            Part(TRUE, FALSE, <<>>, <<ScalarText(part)>>),
            Part(TRUE, TRUE, <<>>, <<Blank>>) >>

FullCard == [part \in Parts |-> FullPart(part)]

\* The card of the test fixture MINIMAL_HTML: a bare h2 and nothing else.
MinimalCard ==
    [part \in Parts |->
        IF part = "h2" THEN Part(TRUE, FALSE, <<>>, <<TITLE>>) ELSE Absent]

\* The complete card with the parts in gaps replaced by the chosen variants.
WithGaps(gaps, choice) ==
    [part \in Parts |->
        IF part \in gaps THEN Variants(part)[choice[part]]
        ELSE FullPart(part)]

GapSets == {gaps \in SUBSET Parts : Cardinality(gaps) <= MaxGaps}

Choices(gaps) ==
    {choice \in [gaps -> 1..8] :
        \A part \in gaps : choice[part] <= Len(Variants(part))}

\* A page of n cards: the card at place i, complete cards before it and
\* minimal cards after it.
PageOf(card, n, i) ==
    [j \in 1..n |->
        IF j = i THEN card ELSE IF j < i THEN FullCard ELSE MinimalCard]

Anchor(href, t) == TagNode("a", <<>>, href, <<TextNode(Raw(t))>>)

RenderPart(part, d) ==
    IF ~d.present THEN <<>>
    ELSE IF part = "h2"
    THEN <<TagNode("h2", <<>>, <<>>,
             IF d.inner THEN <<Anchor(d.href, d.texts[1])>>
             ELSE <<TextNode(Raw(d.texts[1]))>>)>>
    ELSE IF part = "description"
    THEN <<TagNode("div", ABSTRACT_CLASS, <<>>,
             <<TextNode(Raw(d.texts[1]))>>)>>
    ELSE IF part = "country"
    THEN <<TagNode("div", COUNTRY_CLASS, <<>>,
             IF d.inner
             THEN <<TagNode("div", FIELD_ITEM, <<>>,
                      <<TextNode(Raw(d.texts[1]))>>)>>
             ELSE <<TextNode(Raw(d.texts[1]))>>)>>
    ELSE IF part \in MultiParts
    THEN <<TagNode("div",
             CASE part = "key_area" -> KEY_AREA_CLASS
               [] part = "sector" -> SECTOR_CLASS
               [] OTHER -> SCOPE_CLASS,
             <<>>,
             [i \in 1..Len(d.texts) |->
                TagNode("div", FIELD_ITEM, <<>>,
                  IF d.inner THEN <<Anchor(<<REL_LINK>>, d.texts[i])>>
                  ELSE <<TextNode(Raw(d.texts[i]))>>)])>>
    ELSE <<TagNode("div",
             CASE part = "organisation" -> ORGANISATION_CLASS
               [] part = "type_of_organisation" -> CONTRIBUTOR_CLASS
               [] OTHER -> LANGUAGE_CLASS,
             <<>>,
             IF d.inner THEN <<Anchor(<<ABS_LINK>>, d.texts[1])>>
             ELSE <<TextNode(Raw(d.texts[1]))>>)>>

PartOrder == <<"h2", "description", "organisation", "type_of_organisation",
               "country", "language", "key_area", "sector", "scope">>

RECURSIVE RenderParts(_, _)
RenderParts(card, i) ==
    IF i > Len(PartOrder) THEN <<>>
    ELSE RenderPart(PartOrder[i], card[PartOrder[i]])
         \o <<TextNode(<<"\n", " ">>)>> \o RenderParts(card, i + 1)

RenderCard(card) ==
    TagNode("div", CARD_CLASS, <<>>,
            <<TextNode(<<"\n", " ">>)>> \o RenderParts(card, 1))

\* BeautifulSoup(html, "html.parser") of the page's markup.
Soup(pagegen) ==
    TagNode("[document]", <<>>, <<>>,
            [j \in 1..Len(pagegen) |-> RenderCard(pagegen[j])])

----------------------------------------------------------------------------
(* A direct call of parse_practices, as the tests make it *)

ParseIdle ==
    /\ gen = <<>>
    /\ parsed = <<>>

ParseInit ==
    /\ \/ gen = <<>>
       \/ \E gaps \in GapSets : \E choice \in Choices(gaps) :
          \E n \in 1..MaxCards : \E i \in 1..n :
             gen = PageOf(WithGaps(gaps, choice), n, i)
    /\ parsed = <<>>

\* parse_practices(html), html being the markup gen describes.
ParsePractices ==
    /\ parsed = <<>>
    /\ parsed' = <<parse_practices(Soup(gen))>>
    /\ UNCHANGED gen

----------------------------------------------------------------------------
(* The writer *)

Columns == {"Title", "Description", "Link", "Organisation",
            "Type of Organisation", "Country", "Language", "Key Area",
            "Sector", "Scope"}

\* GoodPractice.to_row
to_row(record) ==
    [column \in Columns |->
        CASE column = "Title" -> record.title
          [] column = "Description" -> record.description
          [] column = "Link" -> record.link
          [] column = "Organisation" -> record.organisation
          [] column = "Type of Organisation" -> record.type_of_organisation
          [] column = "Country" -> record.country
          [] column = "Language" -> record.language
          [] column = "Key Area" -> record.key_area
          [] column = "Sector" -> record.sector
          [] OTHER -> record.scope]

to_rows(records) == [i \in 1..Len(records) |-> to_row(records[i])]

\* The file system around output_path: whether the parent directory exists
\* and the file, <<>> when there is none, else <<its rows>>.
Fs(dir, file) == [dir |-> dir, file |-> file]

RecordOf(card) == parse_practice_card(RenderCard(card)).value[1]

\* A dataset an earlier run left behind.
OLD_DATASET == to_rows(<<RecordOf(MinimalCard)>>)

FsStates == {Fs(FALSE, <<>>), Fs(TRUE, <<>>), Fs(TRUE, <<OLD_DATASET>>)}

\* Before a run: no output directory yet, or the dataset of an earlier run.
RunFsStates == {Fs(FALSE, <<>>), Fs(TRUE, <<OLD_DATASET>>)}

\* Mutant: the emptiness check made after mkdir.
write_dataset_checks_late(records, before) ==
    IF records = <<>>
    THEN {[exc |-> "ValueError", fs |-> Fs(TRUE, before.file)]}
    ELSE {[exc |-> "", fs |-> Fs(TRUE, <<to_rows(records)>>)]}

\* What a call of write_dataset can do: the exception that leaves it ("" for
\* a normal return) and the file system it leaves.  mkdir fails only for a
\* missing directory (exist_ok=True); a to_csv that fails has opened the
\* file or not, leaving it as it was or truncated.
write_dataset(records, before) ==
    IF records = <<>> THEN {[exc |-> "ValueError", fs |-> before]}
    ELSE (IF before.dir THEN {} ELSE {[exc |-> "OSError", fs |-> before]})
         \cup {[exc |-> "OSError", fs |-> Fs(TRUE, file)] :
                 file \in {before.file, <<<<>>>>}}
         \cup {[exc |-> "", fs |-> Fs(TRUE, <<to_rows(records)>>)]}

----------------------------------------------------------------------------
(* A run of main *)

MaxPageCap == 3   \* largest --max-pages tried
MaxRetries == 3   \* largest --retries tried

\* --delay values tried: none, and the default.
Delays == {0, 5}

Configs ==
    [max_pages : 0..MaxPageCap, skip : SUBSET (0..MaxPageCap - 1),
     retries : 0..MaxRetries, delay : Delays]

\* A card whose country container lacks the field-item div.
BrokenCard ==
    [FullCard EXCEPT !["country"] =
        Part(TRUE, FALSE, <<>>, <<ScalarText("country")>>)]

\* The markup a 200 response carries.
SitePages == {<<>>, <<FullCard>>, <<MinimalCard, FullCard>>, <<BrokenCard>>}

\* response.text of each, parsed.
Parsed == [pagegen \in SitePages |-> parse_practices(Soup(pagegen))]

Event(ev, p, a, secs, data) ==
    [ev |-> ev, page |-> p, attempt |-> a, secs |-> secs, data |-> data]

RunIdle ==
    /\ cfg = [max_pages |-> 0, skip |-> {}, retries |-> 0, delay |-> 0]
    /\ pc = "idle"
    /\ page = 0
    /\ all_data = <<>>
    /\ page_data = <<>>
    /\ attempt = 0
    /\ log = <<>>
    /\ stop = ""
    /\ fs = Fs(FALSE, <<>>)
    /\ fs0 = fs
    /\ exit_code = <<>>

\* main up to the first test of the while loop of scrape_all_pages.
RunInit ==
    /\ cfg \in Configs
    /\ pc = "loop"
    /\ page = 0
    /\ all_data = <<>>
    /\ page_data = <<>>
    /\ attempt = 0
    /\ log = <<>>
    /\ stop = ""
    /\ fs \in RunFsStates
    /\ fs0 = fs
    /\ exit_code = <<>>

\* Mutant: the cap compared with <=.
while_condition_off_by_one == page <= cfg.max_pages

\* while page < max_pages
while_condition == page < cfg.max_pages

\* Mutant: the skip set read as 1-indexed.
in_skip_one_indexed == page + 1 \in cfg.skip

\* if page in skip
in_skip == page \in cfg.skip

\* In the loop with page in skip: page += 1; continue
SkipPage ==
    /\ pc = "loop"
    /\ while_condition
    /\ in_skip
    /\ page' = page + 1
    /\ log' = Append(log, Event("skip", page, 0, 0, <<>>))
    /\ UNCHANGED <<cfg, pc, all_data, page_data, attempt, stop, fs,
                   fs0, exit_code>>

\* The while condition fails: return all_data.
LoopExit ==
    /\ pc = "loop"
    /\ ~while_condition
    /\ pc' = "scraped"
    /\ stop' = "MaxPagesReached"
    /\ UNCHANGED <<cfg, page, all_data, page_data, attempt, log, fs,
                   fs0, exit_code>>

\* page_data = get_good_practices(...), up to the first GET.  With
\* retries < 1 the for loop has no iteration and the call returns [].
CallGetGoodPractices ==
    /\ pc = "loop"
    /\ while_condition
    /\ ~in_skip
    /\ attempt' = 1
    /\ IF cfg.retries >= 1
       THEN /\ pc' = "get"
            /\ log' = Append(log, Event("call", page, 0, 0, <<>>))
            /\ UNCHANGED page_data
       ELSE /\ pc' = "page_done"
            /\ log' = log \o <<Event("call", page, 0, 0, <<>>),
                               Event("return", page, 0, 0, <<>>)>>
            /\ page_data' = <<>>
    /\ UNCHANGED <<cfg, page, all_data, stop, fs, fs0, exit_code>>

\* session.get answers 200: return parse_practices(response.text).  An
\* exception of the parser is no RequestException: it leaves
\* get_good_practices, scrape_all_pages and main.
GetOk(pagegen) ==
    /\ pc = "get"
    /\ LET result == Parsed[pagegen]
       IN IF result.exc = ""
          THEN /\ pc' = "page_done"
               /\ page_data' = result.value
               /\ log' = log \o
                    <<Event("get_ok", page, attempt, 0, <<>>),
                      Event("return", page, attempt, 0, result.value)>>
               /\ UNCHANGED stop
          ELSE /\ pc' = "raised"
               /\ stop' = result.exc
               /\ log' = Append(log, Event("get_ok", page, attempt, 0, <<>>))
               /\ UNCHANGED page_data
    /\ UNCHANGED <<cfg, page, all_data, attempt, fs, fs0, exit_code>>

\* Mutant: the sleep test written attempt <= retries.
AfterFailure_sleeps_after_last ==
    IF attempt <= cfg.retries
    THEN /\ pc' = "sleep"
         /\ log' = Append(log, Event("get_fail", page, attempt, 0, <<>>))
         /\ UNCHANGED page_data
    ELSE /\ pc' = "page_done"
         /\ page_data' = <<>>
         /\ log' = log \o <<Event("get_fail", page, attempt, 0, <<>>),
                            Event("return", page, attempt, 0, <<>>)>>

\* After a failed attempt: sleep next if attempt < retries, else the for
\* loop ends and the call returns [].
AfterFailure ==
    IF attempt < cfg.retries
    THEN /\ pc' = "sleep"
         /\ log' = Append(log, Event("get_fail", page, attempt, 0, <<>>))
         /\ UNCHANGED page_data
    ELSE /\ pc' = "page_done"
         /\ page_data' = <<>>
         /\ log' = log \o <<Event("get_fail", page, attempt, 0, <<>>),
                            Event("return", page, attempt, 0, <<>>)>>

\* session.get answers with a status other than 200.
GetBadStatus ==
    /\ pc = "get"
    /\ AfterFailure
    /\ UNCHANGED <<cfg, page, all_data, attempt, stop, fs, fs0, exit_code>>

\* session.get raises requests.RequestException.
GetRequestException ==
    /\ pc = "get"
    /\ AfterFailure
    /\ UNCHANGED <<cfg, page, all_data, attempt, stop, fs, fs0, exit_code>>

\* time.sleep(delay), then the next iteration of the for loop.
Sleep ==
    /\ pc = "sleep"
    /\ log' = Append(log, Event("sleep", page, attempt, cfg.delay, <<>>))
    /\ attempt' = attempt + 1
    /\ pc' = "get"
    /\ UNCHANGED <<cfg, page, all_data, page_data, stop, fs, fs0, exit_code>>

\* Mutant: an empty page is passed over instead of ending the loop.
StopOnEmpty_continues ==
    /\ pc = "page_done"
    /\ page_data = <<>>
    /\ pc' = "loop"
    /\ page' = page + 1
    /\ UNCHANGED <<cfg, all_data, page_data, attempt, log, stop, fs, fs0,
                   exit_code>>

\* if not page_data: break, and return all_data.
StopOnEmpty ==
    /\ pc = "page_done"
    /\ page_data = <<>>
    /\ pc' = "scraped"
    /\ stop' = "EmptyPage"
    /\ UNCHANGED <<cfg, page, all_data, page_data, attempt, log, fs,
                   fs0, exit_code>>

\* all_data.extend(page_data); page += 1
ExtendAllData ==
    /\ pc = "page_done"
    /\ page_data # <<>>
    /\ all_data' = all_data \o page_data
    /\ page' = page + 1
    /\ pc' = "loop"
    /\ UNCHANGED <<cfg, page_data, attempt, log, stop, fs, fs0, exit_code>>

\* if not records: return 1
MainNoRecords ==
    /\ pc = "scraped"
    /\ all_data = <<>>
    /\ exit_code' = <<1>>
    /\ pc' = "exit"
    /\ UNCHANGED <<cfg, page, all_data, page_data, attempt, log, stop, fs,
                   fs0>>

\* Mutant: a failed write reported with the code of an empty run.
main_status_one_code(exc) ==
    IF exc \in {"OSError", "ValueError"} THEN <<1>> ELSE <<0>>

\* try: write_dataset(...) except (OSError, ValueError): return 2, and
\* return 0 after a write_dataset that returned.
main_status(exc) ==
    IF exc \in {"OSError", "ValueError"} THEN <<2>> ELSE <<0>>

\* The rest of main with records: the call of write_dataset and the return.
MainWrite ==
    /\ pc = "scraped"
    /\ all_data # <<>>
    /\ \E outcome \in write_dataset(all_data, fs) :
          /\ fs' = outcome.fs
          /\ exit_code' = main_status(outcome.exc)
          /\ log' = Append(log, Event("write_dataset", page, 0, 0,
                                      <<outcome.exc>>))
    /\ pc' = "exit"
    /\ UNCHANGED <<cfg, page, all_data, page_data, attempt, stop, fs0>>

----------------------------------------------------------------------------
(* A direct call of write_dataset *)

MaxRecords == 3   \* longest records argument tried

SomeRecords == {RecordOf(FullCard), RecordOf(MinimalCard)}

RecordSeqs == UNION {[1..n -> SomeRecords] : n \in 0..MaxRecords}

WriteIdle ==
    /\ w_records = <<>>
    /\ w_fs = Fs(FALSE, <<>>)
    /\ w_out = <<>>

WriteInit ==
    /\ w_records \in RecordSeqs
    /\ w_fs \in FsStates
    /\ w_out = <<>>

WriteDataset ==
    /\ w_out = <<>>
    /\ \E outcome \in write_dataset(w_records, w_fs) :
          /\ w_out' = <<outcome.exc>>
          /\ w_fs' = outcome.fs
    /\ UNCHANGED w_records

----------------------------------------------------------------------------
(* The plot generator (analyze.py) *)

MaxColumns == 3   \* longest columns argument tried

\* Column names: those of the test, as character strings.
COUNTRY == <<"C", "o", "u", "n", "t", "r", "y">>
SCOPE == <<"S", "c", "o", "p", "e">>
UNKNOWN_COLUMN ==
    <<"U", "n", "k", "n", "o", "w", "n", "C", "o", "l", "u", "m", "n">>

ColumnNames == {COUNTRY, SCOPE, UNKNOWN_COLUMN}

DISTRIBUTION_PNG ==
    <<"_", "d", "i", "s", "t", "r", "i", "b", "u", "t", "i", "o", "n",
      ".", "p", "n", "g">>

\* output_dir / f"{column}_distribution.png", as the name within output_dir
plot_filename(column) == column \o DISTRIBUTION_PNG

ColumnSeqs == UNION {[1..n -> ColumnNames] : n \in 0..MaxColumns}

\* output_dir before the call: missing, empty, or holding the plots an
\* earlier call made from a dataset that had every column.
PlotDirs ==
    {<<>>, <<{}>>, <<{plot_filename(column) : column \in ColumnNames}>>}

PlotIdle ==
    /\ p_df = {}
    /\ p_columns = <<>>
    /\ p_dir = <<>>
    /\ p_pc = "idle"
    /\ p_i = 0
    /\ p_written = <<>>
    /\ p_warned = <<>>

PlotInit ==
    /\ p_df \in SUBSET ColumnNames
    /\ p_columns \in ColumnSeqs
    /\ p_dir \in PlotDirs
    /\ p_pc = "start"
    /\ p_i = 0
    /\ p_written = <<>>
    /\ p_warned = <<>>

\* ensure_directory(output_dir): mkdir(parents=True, exist_ok=True), then
\* the for loop starts.
EnsureDirectory ==
    /\ p_pc = "start"
    /\ p_dir' = IF p_dir = <<>> THEN <<{}>> ELSE p_dir
    /\ p_pc' = "loop"
    /\ p_i' = 1
    /\ UNCHANGED <<p_df, p_columns, p_written, p_warned>>

\* if column not in df.columns
column_missing == p_columns[p_i] \notin p_df

\* Mutant: a missing column ends the loop (break for continue).
SkipColumn_breaks ==
    /\ p_pc = "loop"
    /\ p_i <= Len(p_columns)
    /\ column_missing
    /\ p_warned' = Append(p_warned, p_columns[p_i])
    /\ p_pc' = "done"
    /\ UNCHANGED <<p_df, p_columns, p_dir, p_i, p_written>>

\* The column is not in the dataset: LOGGER.warning(...); continue
SkipColumn ==
    /\ p_pc = "loop"
    /\ p_i <= Len(p_columns)
    /\ column_missing
    /\ p_warned' = Append(p_warned, p_columns[p_i])
    /\ p_i' = p_i + 1
    /\ UNCHANGED <<p_df, p_columns, p_dir, p_pc, p_written>>

\* The column is in the dataset: save_bar_plot(df, column, filename), whose
\* plt.savefig(filename) makes or replaces the file.
SaveBarPlot ==
    /\ p_pc = "loop"
    /\ p_i <= Len(p_columns)
    /\ ~column_missing
    /\ LET filename == plot_filename(p_columns[p_i])
       IN /\ p_dir' = <<p_dir[1] \cup {filename}>>
          /\ p_written' = Append(p_written, filename)
    /\ p_i' = p_i + 1
    /\ UNCHANGED <<p_df, p_columns, p_pc, p_warned>>

\* The for loop is over: generate_plots returns.
PlotsReturn ==
    /\ p_pc = "loop"
    /\ p_i > Len(p_columns)
    /\ p_pc' = "done"
    /\ UNCHANGED <<p_df, p_columns, p_dir, p_i, p_written, p_warned>>

----------------------------------------------------------------------------
(* Specifications *)

\* A run of the scraper.
Init == RunInit /\ ParseIdle /\ WriteIdle /\ PlotIdle

Next ==
    \/ SkipPage /\ UNCHANGED <<parseVars, writeVars, plotVars>>
    \/ LoopExit /\ UNCHANGED <<parseVars, writeVars, plotVars>>
    \/ CallGetGoodPractices /\ UNCHANGED <<parseVars, writeVars, plotVars>>
    \/ (\E pagegen \in SitePages : GetOk(pagegen))
         /\ UNCHANGED <<parseVars, writeVars, plotVars>>
    \/ GetBadStatus /\ UNCHANGED <<parseVars, writeVars, plotVars>>
    \/ GetRequestException /\ UNCHANGED <<parseVars, writeVars, plotVars>>
    \/ Sleep /\ UNCHANGED <<parseVars, writeVars, plotVars>>
    \/ StopOnEmpty /\ UNCHANGED <<parseVars, writeVars, plotVars>>
    \/ ExtendAllData /\ UNCHANGED <<parseVars, writeVars, plotVars>>
    \/ MainNoRecords /\ UNCHANGED <<parseVars, writeVars, plotVars>>
    \/ MainWrite /\ UNCHANGED <<parseVars, writeVars, plotVars>>

Spec == Init /\ [][Next]_vars

\* parse_practices on one page of markup.
InitParse == ParseInit /\ RunIdle /\ WriteIdle /\ PlotIdle

NextParse == ParsePractices /\ UNCHANGED <<runVars, writeVars, plotVars>>

SpecParse == InitParse /\ [][NextParse]_vars

\* write_dataset on one records argument.
InitWrite == WriteInit /\ RunIdle /\ ParseIdle /\ PlotIdle

NextWrite == WriteDataset /\ UNCHANGED <<runVars, parseVars, plotVars>>

SpecWrite == InitWrite /\ [][NextWrite]_vars

\* generate_plots on one dataset and one columns argument.
InitPlots == PlotInit /\ RunIdle /\ ParseIdle /\ WriteIdle

NextPlots ==
    \/ EnsureDirectory /\ UNCHANGED <<runVars, parseVars, writeVars>>
    \/ SkipColumn /\ UNCHANGED <<runVars, parseVars, writeVars>>
    \/ SaveBarPlot /\ UNCHANGED <<runVars, parseVars, writeVars>>
    \/ PlotsReturn /\ UNCHANGED <<runVars, parseVars, writeVars>>

SpecPlots == InitPlots /\ [][NextPlots]_vars

----------------------------------------------------------------------------
(* What the log of a run shows *)

EventsOf(kinds) == SelectSeq(log, LAMBDA e : e.ev \in kinds)

\* The calls of get_good_practices and their returns, in order.
Calls == EventsOf({"call"})
Returns == EventsOf({"return"})

\* The GET attempts, in order.
Gets == EventsOf({"get_ok", "get_fail"})

PagesOf(events) == [i \in 1..Len(events) |-> events[i].page]

RECURSIVE Flatten(_)
Flatten(seqs) ==
    IF seqs = <<>> THEN <<>> ELSE Head(seqs) \o Flatten(Tail(seqs))

StrictlyIncreasing(s) == \A i \in 1..Len(s) - 1 : s[i] < s[i + 1]

Raised == pc = "raised"

----------------------------------------------------------------------------
(* C1: pagination stops on the first empty page *)

\* C1.  Once a call of get_good_practices has returned no records for page
\* k (the page had no cards, or every attempt failed), the run has not
\* raised, that call is the last one, nothing was fetched for an index
\* above k, the accumulator is the records of the earlier calls in call
\* order, each in its page's order, and once the loop is left the stop
\* reason is EmptyPage.
C1_StopsOnFirstEmptyPage ==
    \A k \in 1..Len(Returns) :
        Returns[k].data = <<>> =>
            /\ k = Len(Returns)
            /\ Len(Calls) = k
            /\ ~Raised
            /\ \A i \in 1..Len(log) :
                 log[i].ev \in {"call", "get_ok", "get_fail"}
                    => log[i].page <= Returns[k].page
            /\ StrictlyIncreasing(PagesOf(Returns))
            /\ all_data = Flatten([j \in 1..k - 1 |-> Returns[j].data])
            /\ pc \in {"page_done", "scraped", "exit"}
            /\ pc # "page_done" => stop = "EmptyPage"
            /\ stop \in {"", "EmptyPage"}

\* Two pages with different records, then a page whose attempts all failed.
C1_Witness ==
    /\ stop = "EmptyPage"
    /\ Len(Returns) = 3
    /\ Returns[1].data # Returns[2].data
    /\ Len(Returns[2].data) = 2
    /\ Len(all_data) = 3
    /\ log[Len(log) - 1].ev = "get_fail"

----------------------------------------------------------------------------
(* C2: the page cap *)

EveryPageNonEmpty == \A k \in 1..Len(Returns) : Returns[k].data # <<>>

BelowCap == 0..cfg.max_pages - 1

\* C2 as stated.  A run of scrape_all_pages that has returned, every call
\* having given at least one record, fetched exactly max_pages pages and
\* stopped with MaxPagesReached, whatever the skip set.
C2_ExactlyMaxPagesFetched ==
    (pc \in {"scraped", "exit"} /\ EveryPageNonEmpty)
        => /\ stop = "MaxPagesReached"
           /\ Len(Calls) = cfg.max_pages

\* C2 as amended.  Only indices below the cap and outside the skip set are
\* fetched; with every fetched page non-empty the stop reason is never
\* EmptyPage; and a run that stops with MaxPagesReached has fetched exactly
\* the indices below the cap that are not skipped, each once, in order:
\* max_pages minus the number of skipped indices below the cap.
C2_CapCountsSkippedPages ==
    /\ \A i \in 1..Len(Calls) : Calls[i].page \in BelowCap \ cfg.skip
    /\ EveryPageNonEmpty => stop # "EmptyPage"
    /\ stop = "MaxPagesReached" =>
          /\ EveryPageNonEmpty
          /\ Len(Returns) = Len(Calls)
          /\ StrictlyIncreasing(PagesOf(Calls))
          /\ Range(PagesOf(Calls)) = BelowCap \ cfg.skip
          /\ Len(Calls) =
                cfg.max_pages - Cardinality(cfg.skip \cap BelowCap)

C2_Witness ==
    /\ stop = "MaxPagesReached"
    /\ cfg.max_pages = 3
    /\ cfg.skip = {1}
    /\ PagesOf(Calls) = <<0, 2>>

----------------------------------------------------------------------------
(* C3: the skip set *)

\* The indices the loop has dealt with so far.
Visited ==
    IF pc = "loop" \/ stop = "MaxPagesReached" THEN 0..page - 1 ELSE 0..page

C3_FetchedOmitSkipped ==
    /\ \A i \in 1..Len(log) :
          log[i].ev \in {"call", "get_ok", "get_fail", "sleep", "return"}
             => log[i].page \notin cfg.skip
    /\ StrictlyIncreasing(PagesOf(Calls))
    /\ Range(PagesOf(Calls)) = Visited \ cfg.skip

C3_SkipAdvances ==
    (pc = "loop" /\ page < cfg.max_pages /\ page \in cfg.skip)
        => /\ page' = page + 1
           /\ pc' = "loop"
           /\ stop' = stop
           /\ EventsOf({"call", "get_ok", "get_fail"})'
                 = EventsOf({"call", "get_ok", "get_fail"})
           /\ all_data' = all_data

\* C3.  No call, GET or sleep is ever made for an index of the skip set;
\* the indices fetched are strictly increasing and are exactly the indices
\* dealt with so far that are not in the skip set; and a step taken at a
\* skipped index below the cap moves to the next index without fetching and
\* without leaving the loop.
C3_SkipSet == []C3_FetchedOmitSkipped /\ [][C3_SkipAdvances]_vars

C3_Witness ==
    /\ cfg.skip = {1}
    /\ PagesOf(Calls) = <<0, 2>>
    /\ \E i \in 1..Len(log) : log[i].ev = "skip" /\ log[i].page = 1
    /\ pc = "get"

----------------------------------------------------------------------------
(* C4: the retry protocol of get_good_practices *)

\* The events of the call for page p, in order.
CallLog(p) == SelectSeq(log, LAMBDA e : e.page = p /\ e.ev # "skip"
                                          /\ e.ev # "write_dataset")

GetKinds == {"get_ok", "get_fail"}

\* The protocol on the events of one call.
RetryProtocol(c) ==
    LET gets == SelectSeq(c, LAMBDA e : e.ev \in GetKinds)
        sleeps == SelectSeq(c, LAMBDA e : e.ev = "sleep")
    IN /\ Len(gets) <= cfg.retries
       /\ \A i \in 1..Len(gets) : gets[i].attempt = i
       /\ \A i \in 1..Len(gets) - 1 : gets[i].ev = "get_fail"
       /\ \A i \in 1..Len(sleeps) : sleeps[i].secs = cfg.delay
       /\ \A i \in 1..Len(c) :
            /\ c[i].ev = "get_ok" =>
                 \A j \in i + 1..Len(c) : c[j].ev = "return"
            /\ (c[i].ev = "get_fail" /\ c[i].attempt < cfg.retries
                  /\ i < Len(c)) =>
                 /\ c[i + 1].ev = "sleep"
                 /\ i + 1 < Len(c) => c[i + 2].ev \in GetKinds
            /\ (c[i].ev = "get_fail" /\ c[i].attempt >= cfg.retries) =>
                 /\ c[i].attempt = cfg.retries
                 /\ i < Len(c)
                 /\ c[i + 1].ev = "return"
                 /\ c[i + 1].data = <<>>
                 /\ ~Raised
            /\ c[i].ev = "sleep" =>
                 /\ i > 1
                 /\ c[i - 1].ev = "get_fail"
                 /\ c[i - 1].attempt < cfg.retries
            /\ (c[i].ev = "return" /\ c[i].data # <<>>) =>
                 /\ i > 1
                 /\ c[i - 1].ev = "get_ok"

\* C4.  For every page: at most retries GET attempts, numbered 1, 2, ...;
\* only the last can be answered 200, and nothing but the return follows
\* it; a failed attempt that is not the last is followed by one sleep of
\* the configured delay and then the next attempt; the failed last attempt
\* is followed by no sleep but by the return of an empty result, and the
\* run has not raised.
C4_RetryProtocol == \A p \in 0..cfg.max_pages : RetryProtocol(CallLog(p))

\* retries = 3: three failed attempts, two sleeps, an empty result.
C4_Witness ==
    /\ cfg.retries = 3
    /\ pc = "page_done"
    /\ page_data = <<>>
    /\ Len(SelectSeq(CallLog(page), LAMBDA e : e.ev = "get_fail")) = 3
    /\ Len(SelectSeq(CallLog(page), LAMBDA e : e.ev = "sleep")) = 2

----------------------------------------------------------------------------
(* C7: the exit status of main *)

RecordsScraped == \E k \in 1..Len(Returns) : Returns[k].data # <<>>

Writes == EventsOf({"write_dataset"})

\* C7.  main returns 0 exactly when records were scraped and write_dataset
\* returned, the file then holding their rows; 1 exactly when no record was
\* scraped, write_dataset was then never called and the file system is as
\* the run found it; 2 exactly when records were scraped and write_dataset
\* failed.  Before main returns there is no code.
C7_ExitStatus ==
    /\ pc # "exit" => exit_code = <<>>
    /\ pc = "exit" =>
          /\ exit_code \in {<<0>>, <<1>>, <<2>>}
          /\ Len(Writes) <= 1
          /\ exit_code = <<0>> <=>
                /\ RecordsScraped
                /\ Len(Writes) = 1
                /\ Writes[1].data = <<"">>
          /\ exit_code = <<0>> => fs.file = <<to_rows(all_data)>>
          /\ exit_code = <<1>> <=> ~RecordsScraped
          /\ exit_code = <<1>> => Writes = <<>> /\ fs = fs0
          /\ exit_code = <<2>> <=>
                /\ RecordsScraped
                /\ Len(Writes) = 1
                /\ Writes[1].data # <<"">>

\* Records were scraped and to_csv failed on the dataset of an earlier run.
C7_Witness ==
    /\ exit_code = <<2>>
    /\ RecordsScraped
    /\ fs0.file = <<OLD_DATASET>>
    /\ Writes[1].data = <<"OSError">>

----------------------------------------------------------------------------
(* What the markup handed to parse_practices calls for *)

Result == parsed[1]

Returned == parsed # <<>> /\ Result.exc = ""

\* The parts a card lacks at some level of the lookup: the part itself, its
\* inner element, or (for the link) the href of the h2's a.
LacksTitle(card) == ~card["h2"].present

LacksLink(card) ==
    \/ ~card["h2"].present
    \/ ~card["h2"].inner
    \/ card["h2"].href = <<>>

LacksField(card, field) ==
    CASE field = "title" -> LacksTitle(card)
      [] field = "link" -> LacksLink(card)
      [] field = "description" -> ~card[field].present
      [] OTHER -> ~card[field].present \/ ~card[field].inner

\* The field of the complete card, written out.
RECURSIVE CoresJoined(_)
CoresJoined(texts) ==
    IF texts = <<>> THEN <<>>
    ELSE IF Len(texts) = 1 THEN texts[1].core
    ELSE CoresJoined(SubSeq(texts, 1, Len(texts) - 1))
         \o <<",", " ">> \o texts[Len(texts)].core

CompleteField(field) ==
    CASE field = "title" -> TITLE.core
      [] field = "link" -> BASE_DOMAIN \o REL_LINK
      [] field \in MultiParts -> CoresJoined(FullPart(field).texts)
      [] OTHER -> FullPart(field).texts[1].core

PartOfField(field) == IF field \in {"title", "link"} THEN "h2" ELSE field

----------------------------------------------------------------------------
(* C5: per-field fault tolerance *)

\* C5 as stated.  parse_practices never raises and returns one record per
\* card; a field whose part, inner element or href is missing is "N/A";
\* and a field whose part is that of the complete card has the complete
\* card's value, whatever the card's other parts and its sibling cards
\* lack.
C5_FaultTolerantPerField ==
    parsed # <<>> =>
        /\ Result.exc = ""
        /\ Len(Result.value) = Len(gen)
        /\ \A j \in 1..Len(gen) : \A field \in Fields :
              /\ LacksField(gen[j], field)
                    => Result.value[j][field] = SENTINEL
              /\ gen[j][PartOfField(field)] = FullPart(PartOfField(field))
                    => Result.value[j][field] = CompleteField(field)

----------------------------------------------------------------------------
(* C6: no field is ever the empty string *)

IsBlank(part) ==
    /\ part.present
    /\ part.texts # <<>>
    /\ \A i \in 1..Len(part.texts) : part.texts[i].core = <<>>

\* C6 as stated.  In every record parse_practices returns, no field is the
\* empty string; a scalar field whose text is empty after trimming is
\* "N/A", and so is a multi-valued field whose container holds no
\* sub-elements.
C6_NeverEmptyString ==
    Returned =>
        \A j \in 1..Len(gen) :
            /\ \A field \in Fields : Result.value[j][field] # <<>>
            /\ IsBlank(gen[j]["h2"]) => Result.value[j].title = SENTINEL
            /\ \A field \in Fields \ ({"title", "link"} \cup MultiParts) :
                  (IsBlank(gen[j][field]) /\ ~LacksField(gen[j], field))
                     => Result.value[j][field] = SENTINEL
            /\ \A field \in MultiParts :
                  (gen[j][field].present /\ gen[j][field].texts = <<>>)
                     => Result.value[j][field] = SENTINEL

----------------------------------------------------------------------------
(* C9: link resolution *)

IsBaseThen(link, value) ==
    /\ Len(link) = Len(BASE_DOMAIN) + Len(value)
    /\ \A i \in 1..Len(BASE_DOMAIN) : link[i] = BASE_DOMAIN[i]
    /\ \A i \in 1..Len(value) : link[Len(BASE_DOMAIN) + i] = value[i]

\* C9.  In every record parse_practices returns: without an h2, without an
\* a under it, or with an empty href the link is "N/A"; an href starting
\* with "/" gives the base domain followed by the href; any other href is
\* the link as it stands.
C9_LinkResolution ==
    Returned =>
        \A j \in 1..Len(gen) :
            LET h2 == gen[j]["h2"]
                link == Result.value[j].link
            IN /\ (~h2.present \/ ~h2.inner) => link = SENTINEL
               /\ (h2.present /\ h2.inner /\ h2.href # <<>>) =>
                    LET href == h2.href[1]
                    IN /\ href = <<>> => link = SENTINEL
                       /\ (href # <<>> /\ href[1] = "/")
                             => IsBaseThen(link, href)
                       /\ (href # <<>> /\ href[1] # "/") => link = href

\* A page with a relative link in its first card and an absolute one in
\* its second.
C9_Witness ==
    /\ Returned
    /\ Len(gen) = 2
    /\ gen[1]["h2"].href = <<REL_LINK>>
    /\ gen[2]["h2"].href = <<ABS_LINK>>
    /\ Result.value[1].link = BASE_DOMAIN \o REL_LINK
    /\ Result.value[2].link = ABS_LINK

----------------------------------------------------------------------------
(* C10: the join of a multi-valued field *)

\* Where the i-th text starts in the joined field, less one.
RECURSIVE Offset(_, _)
Offset(texts, i) ==
    IF i = 1 THEN 0
    ELSE Offset(texts, i - 1) + Len(texts[i - 1].core) + 2

\* value is the cores of texts in order, ", " between neighbours, and
\* nothing else.
IsJoinOf(value, texts) ==
    LET n == Len(texts)
    IN /\ Len(value) = Offset(texts, n) + Len(texts[n].core)
       /\ \A i \in 1..n :
            /\ \A k \in 1..Len(texts[i].core) :
                  value[Offset(texts, i) + k] = texts[i].core[k]
            /\ i < n =>
                  /\ value[Offset(texts, i + 1) - 1] = ","
                  /\ value[Offset(texts, i + 1)] = " "

\* C10.  In every record parse_practices returns, a multi-valued field
\* whose container holds one or more sub-elements is their trimmed texts,
\* all of them, once each, in document order, joined with ", ".
C10_MultiValuedJoin ==
    Returned =>
        \A j \in 1..Len(gen) : \A field \in MultiParts :
            LET part == gen[j][field]
            IN (part.present /\ part.inner /\ part.texts # <<>>)
                  => IsJoinOf(Result.value[j][field], part.texts)

\* The complete card: two sub-items under each container.
C10_Witness ==
    /\ Returned
    /\ gen = <<FullCard>>
    /\ Len(FullCard["key_area"].texts) >= 2
    /\ Result.value[1].key_area
          = Item("K", 1).core \o <<",", " ">>
              \o CoresJoined(SubSeq(FullCard["key_area"].texts, 2,
                                    Len(FullCard["key_area"].texts)))

----------------------------------------------------------------------------
(* C8: write_dataset on no records *)

\* C8.  A call of write_dataset with no records ends with ValueError and
\* leaves the file system as it was: no directory made, the file neither
\* made nor changed.
C8_EmptyWriteStep ==
    (w_records = <<>> /\ w_out = <<>> /\ w_out' # <<>>)
        => /\ w_out' = <<"ValueError">>
           /\ w_fs' = w_fs

C8_EmptyWriteTouchesNothing == [][C8_EmptyWriteStep]_vars

\* The call made with no records where an earlier dataset exists.
C8_Witness ==
    /\ w_records = <<>>
    /\ w_out = <<"ValueError">>
    /\ w_fs.file = <<OLD_DATASET>>

----------------------------------------------------------------------------
(* C11: the plot generator's handling of columns *)

\* The columns the loop has dealt with, in order.
Handled ==
    IF p_pc = "start" THEN <<>>
    ELSE SubSeq(p_columns, 1, IF p_i - 1 < Len(p_columns) THEN p_i - 1
                              ELSE Len(p_columns))

\* file is column followed by "_distribution.png".
IsPlotOf(file, column) ==
    /\ Len(file) = Len(column) + 17
    /\ \A k \in 1..Len(column) : file[k] = column[k]
    /\ \A k \in 1..17 :
          file[Len(column) + k]
             = <<"_", "d", "i", "s", "t", "r", "i", "b", "u", "t", "i", "o",
                 "n", ".", "p", "n", "g">>[k]

C11_WritesForPresentOnly ==
    /\ p_pc \in {"start", "loop", "done"}
    /\ \A k \in 1..Len(p_written) :
          \E j \in 1..Len(Handled) :
             /\ Handled[j] \in p_df
             /\ IsPlotOf(p_written[k], Handled[j])
    /\ \A j \in 1..Len(Handled) :
          IF Handled[j] \in p_df
          THEN \E k \in 1..Len(p_written) :
                  /\ IsPlotOf(p_written[k], Handled[j])
                  /\ p_written[k] \in p_dir[1]
          ELSE /\ \A k \in 1..Len(p_written) :
                     ~IsPlotOf(p_written[k], Handled[j])
               /\ \E k \in 1..Len(p_warned) : p_warned[k] = Handled[j]
    /\ Len(p_written) + Len(p_warned) = Len(Handled)
    /\ p_pc = "done" => Handled = p_columns

C11_AbsentColumnStep ==
    (p_pc = "loop" /\ p_i <= Len(p_columns) /\ p_columns[p_i] \notin p_df)
        => /\ p_pc' = "loop"
           /\ p_i' = p_i + 1
           /\ p_written' = p_written
           /\ p_dir' = p_dir

\* C11.  generate_plots never raises over a column; the files written are
\* <column>_distribution.png for exactly the columns dealt with that the
\* dataset has, one write per such request, and none for a column the
\* dataset lacks, which is warned about instead; a step at a column the
\* dataset lacks writes nothing and moves to the next column; and the call
\* returns only after every requested column was dealt with.
C11_PlotColumns ==
    []C11_WritesForPresentOnly /\ [][C11_AbsentColumnStep]_vars

\* Country, UnknownColumn, Scope asked of a dataset with Country and Scope,
\* the directory holding an old UnknownColumn plot.
C11_Witness ==
    /\ p_pc = "done"
    /\ p_df = {COUNTRY, SCOPE}
    /\ p_columns = <<COUNTRY, UNKNOWN_COLUMN, SCOPE>>
    /\ p_written = <<COUNTRY \o DISTRIBUTION_PNG, SCOPE \o DISTRIBUTION_PNG>>
    /\ p_warned = <<UNKNOWN_COLUMN>>
    /\ (UNKNOWN_COLUMN \o DISTRIBUTION_PNG) \in p_dir[1]

============================================================================
